---- MODULE Spec2Model ----
(***************************************************************************)
(* Lifecycle orchestration of the sample Gin services: the OpenTelemetry   *)
(* bootstrap (otel.go), the run() functions of the service variants        *)
(* (Datadog+MySQL main.go, the plain variant, the OpenTelemetry variant)   *)
(* and the GORM variant's main().                                          *)
(*                                                                         *)
(* An error value is a sequence of error atoms: nil is the empty sequence  *)
(* and errors.Join concatenates, so "e contains x" is membership.          *)
(***************************************************************************)
EXTENDS Bags, FiniteSets, Integers, Naturals, Sequences, TLC

\* How many times a client of setupOTelSDK calls the returned shutdown.
MaxCalls == 3

\* The longest time (seconds) an in-flight request still needs when the
\* drain starts.
MaxRequestTime == 7

\* How many requests the listener is sent.
MaxRequests == 2

nil == << >>

\* errors.Join(a, b): nil operands are dropped, nil when nothing is left.
Join_KeepLast(a, b) == IF b # nil THEN b ELSE a

Join(a, b) == a \o b

Contains(e, x) == \E i \in 1..Len(e) : e[i] = x

\* The program variants of the repository ("dd_nosql": the Datadog program
\* without MySQL).
DDVariants == {"dd", "dd_nosql"}

RunVariants == DDVariants \cup {"plain", "otel"}

Variants == RunVariants \cup {"gorm"}

\* Package-level resource handles.
Handles == {"mysqldb", "rdb", "mdb", "ccn", "kcn", "kw", "kr", "db"}

\* The cleanups setupOTelSDK can register.
SubShutdowns == {"tracerProvider", "meterProvider"}

\* OTEL_LOG_LEVEL values of the environment.
LogLevels == {"debug", "info", ""}

\* PORT values of the environment ("": unset or empty).
PortValues == {"", "8080", "9090", "0", "abc"}

VARIABLES
    variant,        \* which program is running ("sdk": a client of setupOTelSDK alone)
    pc,             \* position of the main path
    logLevel,       \* os.Getenv("OTEL_LOG_LEVEL")
    port,           \* os.Getenv("PORT")
    handles,        \* handle -> "nil" | "open" | "closed"
    defers,         \* the deferred calls of the running function, top first
    registered,     \* every deferred call ever registered
    err,            \* run's local variable err
    retval,         \* the value run returned
    failedAt,       \* the startup step that failed, "none" otherwise
    branch,         \* the event that ended serving: the branch of the select taken
    srvState,       \* the http.Server: "new" | "listening" | "failed" | "closed"
    lpc,            \* the listener goroutine
    lres,           \* the value ListenAndServe returned to the goroutine
    srvErr,         \* the channel srvErr (capacity 1)
    notifying,      \* signal capture is registered (NotifyContext .. stop)
    ctxDone,        \* the signal context is cancelled
    shutdownFuncs,  \* setupOTelSDK's shutdownFuncs
    sdkErr,         \* setupOTelSDK's named result err
    sdkFailed,      \* the construction step of setupOTelSDK that failed
    everRegistered, \* sub-shutdowns ever appended to shutdownFuncs
    invoked,        \* sub-shutdown -> number of invocations
    calledLog,      \* the sub-shutdowns invoked, in order
    failedFns,      \* the sub-shutdowns whose invocation returned an error
    propagator,     \* the process-wide propagator is installed
    providers,      \* the process-wide providers installed
    traceExporter,  \* exporter behind the tracer provider
    metricExporter, \* exporter behind the meter provider
    interval,       \* the periodic reader's interval in seconds
    calls,          \* calls of the returned shutdown made so far
    results,        \* the results of those calls, in order
    stepErrs,       \* errors returned by the shutdown steps of run
    log,            \* the lifecycle steps executed, in order
    exited,         \* the process has exited
    exitCode,
    drain,          \* srv.Shutdown: time the longest in-flight request needed, time the call took
    reqs            \* the requests sent to the listener

vars == << variant, pc, logLevel, port, handles, defers, registered, err, retval,
           failedAt, branch, srvState, lpc, lres, srvErr, notifying, ctxDone,
           shutdownFuncs, sdkErr, sdkFailed, everRegistered, invoked, calledLog, failedFns,
           propagator, providers, traceExporter, metricExporter, interval,
           calls, results, stepErrs, log, exited, exitCode, drain, reqs >>

runVars == << handles, defers, registered, err, retval, failedAt, branch,
              srvState, lpc, lres, srvErr, notifying, ctxDone, stepErrs,
              exited, exitCode >>

sdkVars == << shutdownFuncs, sdkErr, sdkFailed, everRegistered, invoked,
              calledLog, failedFns, propagator, providers, traceExporter, metricExporter,
              interval >>

clientVars == << calls, results >>

\* The first statement of each program.
StartPc(v) ==
    CASE v = "dd"    -> "mysql_open"
      [] v = "dd_nosql" -> "redis_new"
      [] v = "plain" -> "redis_new"
      [] v = "otel"  -> "redis_new"
      [] v = "gorm"  -> "sdk_prop"
      [] OTHER       -> "sdk_prop"

InitVars(v) ==
    /\ variant = v
    /\ pc = StartPc(v)
    /\ logLevel \in LogLevels
    /\ port \in IF v = "gorm" THEN PortValues ELSE {""}
    /\ handles = [h \in Handles |-> "nil"]
    /\ defers = << >>
    /\ registered = {}
    /\ err = nil
    /\ retval = nil
    /\ failedAt = "none"
    /\ branch = "none"
    /\ srvState = "new"
    /\ lpc = "none"
    /\ lres = nil
    /\ srvErr = << >>
    /\ notifying = FALSE
    /\ ctxDone = FALSE
    /\ shutdownFuncs = << >>
    /\ sdkErr = nil
    /\ sdkFailed = "none"
    /\ everRegistered = {}
    /\ invoked = [f \in SubShutdowns |-> 0]
    /\ calledLog = << >>
    /\ failedFns = {}
    /\ propagator = FALSE
    /\ providers = {}
    /\ traceExporter = "none"
    /\ metricExporter = "none"
    /\ interval = 0
    /\ calls = 0
    /\ results = << >>
    /\ stepErrs = {}
    /\ log = << >>
    /\ exited = FALSE
    /\ exitCode = 0
    /\ drain = [req |-> 0, took |-> 0]
    /\ reqs = EmptyBag

Init == \E v \in Variants : InitVars(v)

InitSDK == InitVars("sdk")

----------------------------------------------------------------------------
(* otel.go: setupOTelSDK and its shutdown closure                          *)

\* The error a sub-shutdown returns when it fails.
FnErr(f) == IF f = "tracerProvider" THEN "tp_shutdown_err" ELSE "mp_shutdown_err"

\* The loop of shutdown: err = errors.Join(err, fn(ctx)) for each fn in order.
\* fails is the set of sub-shutdowns that return an error when invoked; the
\* accumulator holds err and the sub-shutdowns invoked so far.
RECURSIVE ShutdownLoop_StopAtFirst(_, _, _)
ShutdownLoop_StopAtFirst(fns, fails, acc) ==
    IF fns = << >> \/ acc.err # nil THEN acc
    ELSE ShutdownLoop_StopAtFirst(Tail(fns), fails,
            [err    |-> Join(acc.err, IF Head(fns) \in fails THEN << FnErr(Head(fns)) >> ELSE nil),
             called |-> Append(acc.called, Head(fns))])

RECURSIVE ShutdownLoop_LIFO(_, _, _)
ShutdownLoop_LIFO(fns, fails, acc) ==
    IF fns = << >> THEN acc
    ELSE ShutdownLoop_LIFO(SubSeq(fns, 1, Len(fns) - 1), fails,
            [err    |-> Join(acc.err, IF fns[Len(fns)] \in fails THEN << FnErr(fns[Len(fns)]) >> ELSE nil),
             called |-> Append(acc.called, fns[Len(fns)])])

RECURSIVE ShutdownLoop(_, _, _)
ShutdownLoop(fns, fails, acc) ==
    IF fns = << >> THEN acc
    ELSE ShutdownLoop(Tail(fns), fails,
            [err    |-> Join(acc.err, IF Head(fns) \in fails THEN << FnErr(Head(fns)) >> ELSE nil),
             called |-> Append(acc.called, Head(fns))])

\* shutdownFuncs after shutdown: "shutdownFuncs = nil".
FuncsAfterShutdown_Keep(fns) == fns

FuncsAfterShutdown(fns) == << >>

Count(fns, f) == Cardinality({i \in 1..Len(fns) : fns[i] = f})

Range(s) == {s[i] : i \in 1..Len(s)}

\* One run of the shutdown closure's loop over the current list.
ShutdownRun(fails) == ShutdownLoop(shutdownFuncs, fails, [err |-> nil, called |-> << >>])

\* The effects of one call of the shutdown closure; its result is
\* ShutdownRun(fails).err.
Shutdown(fails) ==
    /\ invoked' = [f \in SubShutdowns |-> invoked[f] + Count(ShutdownRun(fails).called, f)]
    /\ calledLog' = calledLog \o ShutdownRun(fails).called
    /\ failedFns' = failedFns \cup (fails \cap Range(ShutdownRun(fails).called))
    /\ shutdownFuncs' = FuncsAfterShutdown(shutdownFuncs)

\* Where setupOTelSDK returns to.
SdkReturnPc ==
    CASE variant = "otel" -> "otel_check"
      [] variant = "gorm" -> "g_check"
      [] OTHER            -> "client"

\* handleErr(inErr): err = errors.Join(inErr, shutdown(ctx)); the caller returns.
HandleErrResult_DropRollback(inErr, rollback) == inErr

HandleErrResult(inErr, rollback) == Join(inErr, rollback)

HandleErr(step, inErr) ==
    \E fails \in SUBSET Range(shutdownFuncs) :
        /\ Shutdown(fails)
        /\ sdkErr' = HandleErrResult(inErr, ShutdownRun(fails).err)
        /\ sdkFailed' = step
        /\ pc' = SdkReturnPc

\* newTraceProvider / newMeterProvider: the exporter and the reader interval
\* chosen from OTEL_LOG_LEVEL (the reader's default interval is 1m).
TraceExporterFor(level) == IF level = "debug" THEN "stdout" ELSE "otlp"

MetricExporterFor_Otlp(level) == "otlp"

MetricExporterFor(level) == IF level = "debug" THEN "stdout" ELSE "otlp"

DefaultInterval == 60

DebugInterval == 10

IntervalFor(level) == IF level = "debug" THEN DebugInterval ELSE DefaultInterval

\* "Set up propagator" and the resource descriptor.
SetPropagator ==
    /\ pc = "sdk_prop"
    /\ propagator' = TRUE
    /\ pc' = "sdk_trace"
    /\ UNCHANGED << variant, logLevel, port, runVars, clientVars, drain, reqs, log,
                    shutdownFuncs, sdkErr, sdkFailed, everRegistered, invoked,
                    calledLog, failedFns, providers, traceExporter, metricExporter, interval >>

\* "Set up trace provider."
SetupTraceProvider ==
    /\ pc = "sdk_trace"
    /\ \/ /\ HandleErr("trace", << "trace_err" >>)
          /\ UNCHANGED << everRegistered, providers, traceExporter >>
       \/ /\ traceExporter' = TraceExporterFor(logLevel)
          /\ shutdownFuncs' = Append(shutdownFuncs, "tracerProvider")
          /\ everRegistered' = everRegistered \cup {"tracerProvider"}
          /\ providers' = providers \cup {"tracer"}
          /\ pc' = "sdk_meter"
          /\ UNCHANGED << sdkErr, sdkFailed, invoked, calledLog, failedFns >>
    /\ UNCHANGED << variant, logLevel, port, runVars, clientVars, drain, reqs, log,
                    propagator, metricExporter, interval >>

\* "Set up meter provider."
SetupMeterProvider ==
    /\ pc = "sdk_meter"
    /\ \/ /\ HandleErr("meter", << "meter_err" >>)
          /\ UNCHANGED << everRegistered, providers, metricExporter, interval >>
       \/ /\ metricExporter' = MetricExporterFor(logLevel)
          /\ interval' = IntervalFor(logLevel)
          /\ shutdownFuncs' = Append(shutdownFuncs, "meterProvider")
          /\ everRegistered' = everRegistered \cup {"meterProvider"}
          /\ providers' = providers \cup {"meter"}
          /\ pc' = "sdk_host"
          /\ UNCHANGED << sdkErr, sdkFailed, invoked, calledLog, failedFns >>
    /\ UNCHANGED << variant, logLevel, port, runVars, clientVars, drain, reqs, log,
                    propagator, traceExporter >>

\* err = host.Start()
HostStart ==
    /\ pc = "sdk_host"
    /\ \/ HandleErr("host", << "host_err" >>)
       \/ /\ pc' = "sdk_runtime"
          /\ UNCHANGED << shutdownFuncs, sdkErr, sdkFailed, invoked, calledLog, failedFns >>
    /\ UNCHANGED << variant, logLevel, port, runVars, clientVars, drain, reqs, log,
                    everRegistered, propagator, providers, traceExporter,
                    metricExporter, interval >>

\* err = runtime.Start(...), then the final return.
RuntimeStart ==
    /\ pc = "sdk_runtime"
    /\ \/ HandleErr("runtime", << "runtime_err" >>)
       \/ /\ pc' = SdkReturnPc
          /\ sdkErr' = nil
          /\ UNCHANGED << shutdownFuncs, sdkFailed, invoked, calledLog, failedFns >>
    /\ UNCHANGED << variant, logLevel, port, runVars, clientVars, drain, reqs, log,
                    everRegistered, propagator, providers, traceExporter,
                    metricExporter, interval >>

\* A client of setupOTelSDK calls the returned shutdown once more.
CallShutdown ==
    /\ pc = "client"
    /\ calls < MaxCalls
    /\ \E fails \in SUBSET Range(shutdownFuncs) :
        /\ Shutdown(fails)
        /\ results' = Append(results, ShutdownRun(fails).err)
    /\ calls' = calls + 1
    /\ UNCHANGED << variant, pc, logLevel, port, runVars, log, sdkErr, sdkFailed,
                    everRegistered, propagator, providers, traceExporter,
                    metricExporter, interval, drain, reqs >>

NextSDK ==
    \/ SetPropagator
    \/ SetupTraceProvider
    \/ SetupMeterProvider
    \/ HostStart
    \/ RuntimeStart
    \/ CallShutdown

SpecSDK == InitSDK /\ [][NextSDK]_vars
----------------------------------------------------------------------------
(* run(): startup, the wait, and the deferred cleanups                     *)

\* defer f(): deferred calls run last-in first-out.
Push_FIFO(name, stack) == Append(stack, name)

Push_Twice(name, stack) == << name, name >> \o stack

Push(name, stack) == << name >> \o stack

\* "return e" from run: the result is fixed, then the deferred calls run.
Return(e) ==
    /\ retval' = e
    /\ pc' = "unwind"

\* A startup step fails: "return err".
Fail_Continue(step, e) ==
    /\ err' = e
    /\ failedAt' = step
    /\ pc' = "notify"
    /\ UNCHANGED retval

Fail(step, e) ==
    /\ err' = e
    /\ failedAt' = step
    /\ Return(e)

Defer(name) ==
    /\ defers' = Push(name, defers)
    /\ registered' = registered \cup {name}

listenerVars == << srvState, lpc, lres, srvErr >>

signalVars == << notifying, ctxDone >>

exitVars == << exited, exitCode >>

\* mysqldb, err = sqltrace.Open(...)
MysqlOpen ==
    /\ pc = "mysql_open"
    /\ \/ /\ Fail("mysql_open", << "mysql_open_err" >>)
          /\ UNCHANGED handles
       \/ /\ handles' = [handles EXCEPT !["mysqldb"] = "open"]
          /\ pc' = "mysql_ping"
          /\ UNCHANGED << err, retval, failedAt >>
    /\ UNCHANGED << variant, logLevel, port, sdkVars, clientVars, drain, reqs, defers, registered,
                    branch, listenerVars, signalVars, stepErrs, log, exitVars >>

\* mysqldb.Ping(), then defer mysqldb.Close()
MysqlPing ==
    /\ pc = "mysql_ping"
    /\ \/ /\ Fail("mysql_ping", << "mysql_ping_err" >>)
          /\ UNCHANGED << defers, registered >>
       \/ /\ Defer("mysql_close")
          /\ pc' = "redis_new"
          /\ UNCHANGED << err, retval, failedAt >>
    /\ UNCHANGED << variant, logLevel, port, sdkVars, clientVars, drain, reqs, handles,
                    branch, listenerVars, signalVars, stepErrs, log, exitVars >>

\* rdb = redis.NewClient(...)
RedisNew ==
    /\ pc = "redis_new"
    /\ handles' = [handles EXCEPT !["rdb"] = "open"]
    /\ pc' = IF variant = "otel" THEN "redis_instr" ELSE "mongo_connect"
    /\ UNCHANGED << variant, logLevel, port, sdkVars, clientVars, drain, reqs, defers, registered,
                    err, retval, failedAt, branch, listenerVars, signalVars,
                    stepErrs, log, exitVars >>

\* redisotel.InstrumentTracing(rdb) in the OpenTelemetry variant
RedisInstrument ==
    /\ pc = "redis_instr"
    /\ \/ /\ retval' = << "redis_instr_err" >>
          /\ failedAt' = "redis_instr"
          /\ pc' = "unwind"
       \/ /\ pc' = "mongo_connect"
          /\ UNCHANGED << retval, failedAt >>
    /\ UNCHANGED << variant, logLevel, port, sdkVars, clientVars, drain, reqs, handles, defers,
                    registered, err, branch, listenerVars, signalVars,
                    stepErrs, log, exitVars >>

\* mdb, err = mongo.Connect(...); the Datadog variant first creates a
\* timeout context and defers its cancel.
MongoConnect ==
    /\ pc = "mongo_connect"
    /\ IF variant \in DDVariants THEN Defer("cancel") ELSE UNCHANGED << defers, registered >>
    /\ \/ /\ Fail("mongo_connect", << "mongo_connect_err" >>)
          /\ UNCHANGED handles
       \/ /\ handles' = [handles EXCEPT !["mdb"] = "open"]
          /\ pc' = "mongo_ping"
          /\ UNCHANGED << err, retval, failedAt >>
    /\ UNCHANGED << variant, logLevel, port, sdkVars, clientVars, drain, reqs,
                    branch, listenerVars, signalVars, stepErrs, log, exitVars >>

\* mdb.Ping(...), then defer mdb.Disconnect(...)
MongoPing ==
    /\ pc = "mongo_ping"
    /\ \/ /\ Fail("mongo_ping", << "mongo_ping_err" >>)
          /\ UNCHANGED << defers, registered >>
       \/ /\ Defer("mdb_disconnect")
          /\ pc' = "ch_open"
          /\ UNCHANGED << err, retval, failedAt >>
    /\ UNCHANGED << variant, logLevel, port, sdkVars, clientVars, drain, reqs, handles,
                    branch, listenerVars, signalVars, stepErrs, log, exitVars >>

\* ccn, err = clickhouse.Open(...)
ClickhouseOpen ==
    /\ pc = "ch_open"
    /\ \/ /\ Fail("ch_open", << "ch_open_err" >>)
          /\ UNCHANGED handles
       \/ /\ handles' = [handles EXCEPT !["ccn"] = "open"]
          /\ pc' = "ch_ping"
          /\ UNCHANGED << err, retval, failedAt >>
    /\ UNCHANGED << variant, logLevel, port, sdkVars, clientVars, drain, reqs, defers, registered,
                    branch, listenerVars, signalVars, stepErrs, log, exitVars >>

\* ccn.Ping(...)
ClickhousePing ==
    /\ pc = "ch_ping"
    /\ \/ Fail("ch_ping", << "ch_ping_err" >>)
       \/ /\ pc' = IF variant \in DDVariants THEN "kafka_new" ELSE "kafka_dial"
          /\ UNCHANGED << err, retval, failedAt >>
    /\ UNCHANGED << variant, logLevel, port, sdkVars, clientVars, drain, reqs, handles, defers,
                    registered, branch, listenerVars, signalVars, stepErrs,
                    log, exitVars >>

\* kw = kafkatrace.NewWriter(...); kr = kafkatrace.NewReader(...); defer close
KafkaNew ==
    /\ pc = "kafka_new"
    /\ handles' = [handles EXCEPT !["kw"] = "open", !["kr"] = "open"]
    /\ Defer("kafka_close")
    /\ pc' = "notify"
    /\ UNCHANGED << variant, logLevel, port, sdkVars, clientVars, drain, reqs, err, retval,
                    failedAt, branch, listenerVars, signalVars, stepErrs,
                    log, exitVars >>

\* kcn, err = kafka.DialLeader(...)
KafkaDial ==
    /\ pc = "kafka_dial"
    /\ \/ /\ Fail("kafka_dial", << "kafka_dial_err" >>)
          /\ UNCHANGED handles
       \/ /\ handles' = [handles EXCEPT !["kcn"] = "open"]
          /\ pc' = "notify"
          /\ UNCHANGED << err, retval, failedAt >>
    /\ UNCHANGED << variant, logLevel, port, sdkVars, clientVars, drain, reqs, defers, registered,
                    branch, listenerVars, signalVars, stepErrs, log, exitVars >>

\* ctx, stop := signal.NotifyContext(...); defer stop()
NotifyContext ==
    /\ pc = "notify"
    /\ notifying' = TRUE
    /\ Defer("stop")
    /\ pc' = IF variant = "otel" THEN "sdk_prop" ELSE "go_listen"
    /\ UNCHANGED << variant, logLevel, port, sdkVars, clientVars, drain, reqs, handles, err,
                    retval, failedAt, branch, listenerVars, ctxDone, stepErrs,
                    log, exitVars >>

\* The signal arrives while it is captured.
Interrupt ==
    /\ notifying
    /\ ~ctxDone
    /\ ~exited
    /\ ctxDone' = TRUE
    /\ UNCHANGED << variant, pc, logLevel, port, sdkVars, clientVars, drain, reqs, handles,
                    defers, registered, err, retval, failedAt, branch,
                    listenerVars, notifying, stepErrs, log, exitVars >>

\* otelShutdown, err := setupOTelSDK(ctx); if err != nil { return err };
\* defer func() { err = errors.Join(err, otelShutdown(...)) }()
OtelCheck ==
    /\ pc = "otel_check"
    /\ err' = sdkErr
    /\ IF sdkErr # nil
       THEN /\ failedAt' = "otel_setup"
            /\ Return(sdkErr)
            /\ UNCHANGED << defers, registered >>
       ELSE /\ Defer("otel_shutdown")
            /\ pc' = "go_listen"
            /\ UNCHANGED << retval, failedAt >>
    /\ UNCHANGED << variant, logLevel, port, sdkVars, clientVars, drain, reqs, handles, branch,
                    listenerVars, signalVars, stepErrs, log, exitVars >>
\* go func() { srvErr <- srv.ListenAndServe() }()
GoListen ==
    /\ pc = "go_listen"
    /\ lpc' = "started"
    /\ pc' = "select"
    /\ UNCHANGED << variant, logLevel, port, sdkVars, clientVars, drain, reqs, handles, defers,
                    registered, err, retval, failedAt, branch, srvState, lres,
                    srvErr, signalVars, stepErrs, log, exitVars >>

\* No port: the text is not a port number.
NoPort == -1

\* The port number a decimal text stands for.
ParsePort(p) ==
    CASE p = "8080" -> 8080
      [] p = "9090" -> 9090
      [] p = "0"    -> 0
      [] OTHER      -> NoPort

\* run's servers use Addr ":8000".
RunPort == 8000

\* main of the GORM variant: port := os.Getenv("PORT"), "8080" when empty.
DefaultPort == "8080"

ServerPort(p) == IF p = "" THEN DefaultPort ELSE p

\* A port the system picks when the listener asks for port 0.
EphemeralPort == 49152

\* The port the listener is bound to once it listens on ":" + p.
BoundPort(p) == IF ParsePort(p) = 0 THEN EphemeralPort ELSE ParsePort(p)

ListenPort ==
    IF variant = "gorm" THEN BoundPort(ServerPort(port)) ELSE RunPort

\* internalHealthCheckHandler: the port of baseURL, localhost:8080 unless
\* PORT is set.
CheckPort(p) == IF p # "" THEN ParsePort(p) ELSE ParsePort(DefaultPort)

\* ListenAndServe binds the port and serves.
ListenOk ==
    /\ lpc = "started"
    /\ srvState = "new"
    /\ ListenPort # NoPort
    /\ ~exited
    /\ srvState' = "listening"
    /\ lpc' = "serving"
    /\ UNCHANGED << variant, pc, logLevel, port, sdkVars, clientVars, drain, reqs, handles,
                    defers, registered, err, retval, failedAt, branch, lres,
                    srvErr, signalVars, stepErrs, log, exitVars >>

\* ListenAndServe returns: ErrServerClosed after Shutdown, a bind or accept
\* error otherwise.
ListenAndServeReturns ==
    /\ variant \in RunVariants
    /\ lpc \in {"started", "serving"}
    /\ ~exited
    /\ IF srvState = "closed"
       THEN /\ lres' = << "ErrServerClosed" >>
            /\ UNCHANGED srvState
       ELSE /\ lres' = << "listen_err" >>
            /\ srvState' = "failed"
    /\ lpc' = "returned"
    /\ UNCHANGED << variant, pc, logLevel, port, sdkVars, clientVars, drain, reqs, handles,
                    defers, registered, err, retval, failedAt, branch,
                    srvErr, signalVars, stepErrs, log, exitVars >>

\* srvErr := make(chan error, 1)
SrvErrCap == 1

\* A send on the channel completes at once while the buffer has room.
CanSend_NeedsReceiver(ch) == pc = "select"

CanSend(ch) == Len(ch) < SrvErrCap

\* The send on srvErr, a channel of capacity 1.
SendSrvErr ==
    /\ lpc = "returned"
    /\ ~exited
    /\ CanSend(srvErr)
    /\ srvErr' = Append(srvErr, lres)
    /\ lpc' = "done"
    /\ UNCHANGED << variant, pc, logLevel, port, sdkVars, clientVars, drain, reqs, handles,
                    defers, registered, err, retval, failedAt, branch,
                    srvState, lres, signalVars, stepErrs, log, exitVars >>

\* case err = <-srvErr: return err
SelectSrvErr ==
    /\ pc = "select"
    /\ srvErr # << >>
    /\ err' = Head(srvErr)
    /\ srvErr' = Tail(srvErr)
    /\ branch' = "srvErr"
    /\ Return(Head(srvErr))
    /\ UNCHANGED << variant, logLevel, port, sdkVars, clientVars, drain, reqs, handles, defers,
                    registered, failedAt, srvState, lpc, lres, signalVars,
                    stepErrs, log, exitVars >>

\* stop(): signal capture is unregistered, whatever it was before.
Stop_Noop(n) == n

Stop(n) == FALSE

\* case <-ctx.Done(): stop(); shutdownCtx, cancel := ...; defer cancel()
SelectCtxDone ==
    /\ pc = "select"
    /\ ctxDone
    /\ branch' = "interrupt"
    /\ notifying' = Stop(notifying)
    /\ Defer("cancel")
    /\ pc' = "srv_shutdown"
    /\ UNCHANGED << variant, logLevel, port, sdkVars, clientVars, drain, reqs, handles, err,
                    retval, failedAt, listenerVars, ctxDone, stepErrs, log,
                    exitVars >>

\* The results srv.Shutdown(shutdownCtx) can have: nil when the drain ends
\* in time, the context's error when the 5s deadline expires first.
ShutdownResults == {nil, << "drain_deadline_err" >>}

\* shutdownCtx, cancel := context.WithTimeout(context.Background(), 5*time.Second)
DrainDeadline == 5

\* srv.Shutdown(shutdownCtx) when the longest in-flight request needs d more
\* seconds: it returns nil once the connections are idle and the context's
\* error once the deadline has passed (either, when both happen together).
DrainResults_NoDeadline(d) == {nil}

DrainResults_ServerClosed(d) == {<< "ErrServerClosed" >>}

DrainResults_Never(d) == {}

DrainResults(d) ==
    IF d > DrainDeadline THEN {<< "drain_deadline_err" >>}
    ELSE IF d < DrainDeadline THEN {nil}
    ELSE ShutdownResults

\* The time the call of srv.Shutdown takes.
DrainTime(d) == IF d > DrainDeadline THEN DrainDeadline ELSE d

\* What run returns on the interrupt branch: the result r of srv.Shutdown;
\* the channel srvErr is not received from on this branch.
InterruptResult_JoinListener(r, ch) == IF ch = << >> THEN r ELSE Join(r, Head(ch))

InterruptResult(r, ch) == r

\* return srv.Shutdown(shutdownCtx)
SrvShutdown ==
    /\ pc = "srv_shutdown"
    /\ \E d \in 0..MaxRequestTime :
        \E r \in DrainResults(d) :
            /\ Return(InterruptResult(r, srvErr))
            /\ stepErrs' = stepErrs \cup Range(r)
            /\ drain' = [req |-> d, took |-> DrainTime(d)]
    /\ srvState' = "closed"
    /\ log' = Append(log, "srv.Shutdown")
    /\ UNCHANGED << variant, logLevel, port, sdkVars, clientVars, reqs, handles, defers,
                    registered, err, failedAt, branch, lpc, lres, srvErr,
                    signalVars, exitVars >>

Unwinding(name) ==
    /\ pc = "unwind"
    /\ defers # << >>
    /\ Head(defers) = name
    /\ defers' = Tail(defers)

\* The results a Close or Disconnect can have.
CloseResults(h) == {nil, << h \o "_close_err" >>}

\* deferred cancel()
DeferCancel ==
    /\ Unwinding("cancel")
    /\ UNCHANGED << variant, pc, logLevel, port, sdkVars, clientVars, drain, reqs, handles,
                    registered, err, retval, failedAt, branch, listenerVars,
                    signalVars, stepErrs, log, exitVars >>

\* deferred stop()
DeferStop ==
    /\ Unwinding("stop")
    /\ notifying' = Stop(notifying)
    /\ UNCHANGED << variant, pc, logLevel, port, sdkVars, clientVars, drain, reqs, handles,
                    registered, err, retval, failedAt, branch, listenerVars,
                    ctxDone, stepErrs, log, exitVars >>

\* deferred func() { err = errors.Join(err, otelShutdown(context.Background())) }()
\* run's result is unnamed: the assignment is to the local err.
DeferOtelShutdown ==
    /\ Unwinding("otel_shutdown")
    /\ \E fails \in SUBSET Range(shutdownFuncs) :
        /\ Shutdown(fails)
        /\ err' = Join(err, ShutdownRun(fails).err)
        /\ stepErrs' = stepErrs \cup Range(ShutdownRun(fails).err)
    /\ log' = Append(log, "otelShutdown")
    /\ UNCHANGED << variant, pc, logLevel, port, clientVars, drain, reqs, handles, registered,
                    retval, failedAt, branch, listenerVars, signalVars,
                    exitVars, sdkErr, sdkFailed, everRegistered, propagator,
                    providers, traceExporter, metricExporter, interval >>

\* deferred func() { _ = mdb.Disconnect(context.Background()) }()
DeferMdbDisconnect ==
    /\ Unwinding("mdb_disconnect")
    /\ handles' = [handles EXCEPT !["mdb"] = "closed"]
    /\ \E r \in CloseResults("mdb") : stepErrs' = stepErrs \cup Range(r)
    /\ log' = Append(log, "close:mdb")
    /\ UNCHANGED << variant, pc, logLevel, port, sdkVars, clientVars, drain, reqs, registered,
                    err, retval, failedAt, branch, listenerVars, signalVars,
                    exitVars >>

\* deferred func() { _ = mysqldb.Close() }()
DeferMysqlClose ==
    /\ Unwinding("mysql_close")
    /\ handles' = [handles EXCEPT !["mysqldb"] = "closed"]
    /\ \E r \in CloseResults("mysqldb") : stepErrs' = stepErrs \cup Range(r)
    /\ log' = Append(log, "close:mysqldb")
    /\ UNCHANGED << variant, pc, logLevel, port, sdkVars, clientVars, drain, reqs, registered,
                    err, retval, failedAt, branch, listenerVars, signalVars,
                    exitVars >>

\* deferred func() { if kw != nil { _ = kw.Close() }; if kr != nil { _ = kr.Close() } }()
DeferKafkaClose ==
    /\ Unwinding("kafka_close")
    /\ handles' = [h \in Handles |->
                     IF h \in {"kw", "kr"} /\ handles[h] # "nil" THEN "closed" ELSE handles[h]]
    /\ \E rw \in CloseResults("kw"), rr \in CloseResults("kr") :
           stepErrs' = stepErrs \cup Range(rw) \cup Range(rr)
    /\ log' = Append(log, "close:kafka")
    /\ UNCHANGED << variant, pc, logLevel, port, sdkVars, clientVars, drain, reqs, registered,
                    err, retval, failedAt, branch, listenerVars, signalVars,
                    exitVars >>

\* run has returned to main.
ReturnDone ==
    /\ pc = "unwind"
    /\ defers = << >>
    /\ pc' = "returned"
    /\ UNCHANGED << variant, logLevel, port, sdkVars, clientVars, drain, reqs, handles, defers,
                    registered, err, retval, failedAt, branch, listenerVars,
                    signalVars, stepErrs, log, exitVars >>

\* The exit status of main: log.Fatalln exits with 1, a plain return with 0.
ExitCodeFor_Zero(r) == 0

ExitCodeFor(r) == IF r # nil THEN 1 ELSE 0

\* main: if err := run(); err != nil { log.Fatalln(err) }
MainExit ==
    /\ pc = "returned"
    /\ exited' = TRUE
    /\ exitCode' = ExitCodeFor(retval)
    /\ pc' = "exited"
    /\ UNCHANGED << variant, logLevel, port, sdkVars, clientVars, drain, reqs, handles, defers,
                    registered, err, retval, failedAt, branch, listenerVars,
                    signalVars, stepErrs, log >>

----------------------------------------------------------------------------
(* main() of the GORM variant                                              *)

\* otelShutdown, err := setupOTelSDK(ctx); if err != nil { log.Fatalf(...) };
\* defer func() { otelShutdown(ctx) ... }()
GormCheck ==
    /\ pc = "g_check"
    /\ IF sdkErr # nil
       THEN /\ exited' = TRUE
            /\ exitCode' = 1
            /\ failedAt' = "otel_setup"
            /\ pc' = "exited"
            /\ UNCHANGED << defers, registered >>
       ELSE /\ Defer("otel_shutdown")
            /\ pc' = "g_initdb"
            /\ UNCHANGED << exited, exitCode, failedAt >>
    /\ UNCHANGED << variant, logLevel, port, sdkVars, clientVars, drain, reqs, handles, err,
                    retval, branch, listenerVars, signalVars, stepErrs, log >>

\* initDatabase(): on a connection failure the error is logged and the
\* service continues without db.
InitDatabase ==
    /\ pc = "g_initdb"
    /\ \/ /\ handles' = [handles EXCEPT !["db"] = "open"]
          /\ UNCHANGED failedAt
       \/ /\ failedAt' = "db_open"
          /\ UNCHANGED handles
    /\ pc' = "g_run"
    /\ UNCHANGED << variant, logLevel, port, sdkVars, clientVars, drain, reqs, defers, registered,
                    err, retval, branch, listenerVars, signalVars,
                    stepErrs, log, exitVars >>

\* r.Run(":" + port): the main path runs the listener.
GormRun ==
    /\ pc = "g_run"
    /\ lpc' = "started"
    /\ pc' = "g_serving"
    /\ UNCHANGED << variant, logLevel, port, sdkVars, clientVars, drain, reqs, handles, defers,
                    registered, err, retval, failedAt, branch, srvState, lres,
                    srvErr, signalVars, stepErrs, log, exitVars >>

\* r.Run returns an error: log.Fatal exits without running deferred calls.
GormRunFails ==
    /\ pc = "g_serving"
    /\ srvState' = "failed"
    /\ lpc' = "done"
    /\ branch' = "srvErr"
    /\ err' = << "listen_err" >>
    /\ exited' = TRUE
    /\ exitCode' = 1
    /\ pc' = "exited"
    /\ UNCHANGED << variant, logLevel, port, sdkVars, clientVars, drain, reqs, handles, defers,
                    registered, retval, failedAt, lres, srvErr,
                    signalVars, stepErrs, log >>

Next ==
    \/ SetPropagator
    \/ SetupTraceProvider
    \/ SetupMeterProvider
    \/ HostStart
    \/ RuntimeStart
    \/ MysqlOpen
    \/ MysqlPing
    \/ RedisNew
    \/ RedisInstrument
    \/ MongoConnect
    \/ MongoPing
    \/ ClickhouseOpen
    \/ ClickhousePing
    \/ KafkaNew
    \/ KafkaDial
    \/ NotifyContext
    \/ Interrupt
    \/ OtelCheck
    \/ GoListen
    \/ ListenOk
    \/ ListenAndServeReturns
    \/ SendSrvErr
    \/ SelectSrvErr
    \/ SelectCtxDone
    \/ SrvShutdown
    \/ DeferCancel
    \/ DeferStop
    \/ DeferOtelShutdown
    \/ DeferMdbDisconnect
    \/ DeferMysqlClose
    \/ DeferKafkaClose
    \/ ReturnDone
    \/ MainExit
    \/ GormCheck
    \/ InitDatabase
    \/ GormRun
    \/ GormRunFails

Spec == Init /\ [][Next]_vars

-----------------------------------------------------------------------------
\* Interrupts that arrive while the signal is not captured.

\* The status of a process ended by os.Interrupt.
SignalExit == 130

\* The signal arrives while no NotifyContext captures it: the Go runtime's
\* default ends the process; no deferred call runs.
InterruptKills ==
    /\ ~notifying
    /\ ~exited
    /\ exited' = TRUE
    /\ exitCode' = SignalExit
    /\ pc' = "exited"
    /\ UNCHANGED << variant, logLevel, port, sdkVars, clientVars, drain, reqs, handles,
                    defers, registered, err, retval, failedAt, branch,
                    listenerVars, signalVars, stepErrs, log >>

NextSignal == Next \/ InterruptKills

SpecSignal == Init /\ [][NextSignal]_vars

-----------------------------------------------------------------------------
\* Request handling by the router while the listener is open.

\* The routes each program registers that call a backend.
DemoHandlers == {"api", "mysql", "redis", "mongo", "clickhouse",
                 "kafka_produce", "kafka_consume"}

Routes(v) ==
    CASE v = "dd"              -> DemoHandlers
      [] v \in {"dd_nosql", "plain", "otel"} -> DemoHandlers \ {"mysql"}
      [] v = "gorm"            -> {"health", "internal_check"}
      [] OTHER                 -> {}

\* What the handler's backend call comes back with.
BackendOutcomes(h) ==
    CASE h \in {"redis", "mongo"} -> {"ok", "notfound", "error"}
      [] h = "internal_check"     -> {"ok", "error", "badbody"}
      [] OTHER                    -> {"ok", "error"}

StatusOK == 200
StatusInternalServerError == 500

\* redisFunc: redis.Nil is answered with 200 except in the program without
\* MySQL, whose redisFunc answers every error with 500.
RedisStatus_NilIsError(v, outcome) ==
    IF outcome = "ok" THEN StatusOK ELSE StatusInternalServerError

RedisStatus(v, outcome) ==
    CASE outcome = "ok"       -> StatusOK
      [] outcome = "notfound" ->
            IF v = "dd_nosql" THEN StatusInternalServerError ELSE StatusOK
      [] OTHER                -> StatusInternalServerError

\* The status each handler writes for the result of its backend call.
HandlerStatus_AlwaysOK(v, h, outcome) == StatusOK

HandlerStatus(v, h, outcome) ==
    CASE h = "redis" -> RedisStatus(v, outcome)
      [] h = "mongo" -> StatusOK
      [] h = "kafka_consume" ->
            IF v \in DDVariants /\ outcome = "error" THEN StatusInternalServerError
            ELSE StatusOK
      [] h = "health" -> StatusOK
      [] OTHER ->
            IF outcome = "ok" THEN StatusOK ELSE StatusInternalServerError

\* The accept loop of ListenAndServe takes connections while the listener
\* is open.
Accepting_Always == TRUE

Accepting == srvState = "listening"

\* The JSON body of a response: HealthResponse and InternalCheckResponse
\* (user_count, internal_health and internal_error are omitted when unset).
NoBody == [status |-> "none", database |-> "none", user_count |-> FALSE,
           internal_health |-> "absent", internal_error |-> FALSE]

\* The listener accepts a request and the router dispatches it.
Accept ==
    /\ Accepting
    /\ ~exited
    /\ BagCardinality(reqs) < MaxRequests
    /\ \E h \in Routes(variant) :
           reqs' = reqs (+) SetToBag({[st |-> "inflight", h |-> h, at |-> pc,
                                       outcome |-> "none", status |-> 0,
                                       body |-> NoBody]})
    /\ UNCHANGED << variant, pc, logLevel, port, sdkVars, clientVars, drain, runVars, log >>

\* The package variable a handler's backend call goes through.
HandleUsed(h) ==
    CASE h = "mysql"      -> "mysqldb"
      [] h = "redis"      -> "rdb"
      [] h = "mongo"      -> "mdb"
      [] h = "clickhouse" -> "ccn"
      [] h = "kafka_produce" -> IF variant \in DDVariants THEN "kw" ELSE "kcn"
      [] h = "kafka_consume" -> IF variant \in DDVariants THEN "kr" ELSE "kcn"
      [] h = "health"     -> "db"
      [] OTHER            -> "none"

\* The package variables after a handler has run: handlers call methods on
\* the handles and assign none of them.
HandlesAfter_CloseUsed(h, hs) ==
    IF HandleUsed(h) \in DOMAIN hs
    THEN [hs EXCEPT ![HandleUsed(h)] = "closed"]
    ELSE hs

HandlesAfter(h, hs) == hs

\* healthHandler: db is the handle, outcome the result of the count query.
HealthBody_AlwaysConnected(dbHandle, outcome) ==
    [NoBody EXCEPT !.status = "healthy", !.database = "connected",
                   !.user_count = TRUE]

HealthBody(dbHandle, outcome) ==
    IF dbHandle # "nil" /\ outcome = "ok"
    THEN [NoBody EXCEPT !.status = "healthy", !.database = "connected",
                        !.user_count = TRUE]
    ELSE [NoBody EXCEPT !.status = "healthy", !.database = "disconnected"]

\* internalHealthCheckHandler: outcome is the result of the internal call,
\* nested the database field of the /health body it received.
InternalCheckBody_KeepHealth(outcome, nested) ==
    IF outcome = "ok"
    THEN [NoBody EXCEPT !.status = "healthy", !.internal_health = nested]
    ELSE [NoBody EXCEPT !.status = "healthy", !.internal_health = "disconnected",
                        !.internal_error = TRUE]

InternalCheckBody(outcome, nested) ==
    IF outcome = "ok"
    THEN [NoBody EXCEPT !.status = "healthy", !.internal_health = nested]
    ELSE [NoBody EXCEPT !.status = "healthy", !.internal_error = TRUE]

\* The internal call reaches /health when it goes to the port the listener
\* is bound to.
CheckReaches == srvState = "listening" /\ CheckPort(port) = ListenPort

\* The results the handler's backend call can have now.
OutcomesNow(h) ==
    IF h = "internal_check" /\ ~CheckReaches THEN {"error"}
    ELSE BackendOutcomes(h)

\* The database field of the /health body an internal call can receive.
NestedHealth(h, o) ==
    IF h = "internal_check" /\ o = "ok"
    THEN {HealthBody(handles["db"], q).database : q \in {"ok", "error"}}
    ELSE {"absent"}

BodyOf(h, o, nested) ==
    CASE h = "health"         -> HealthBody(handles["db"], o)
      [] h = "internal_check" -> InternalCheckBody(o, nested)
      [] OTHER                -> NoBody

\* A handler finishes: its backend call returns and it writes the response.
Respond ==
    /\ ~exited
    /\ \E r \in BagToSet(reqs) :
        /\ r.st = "inflight"
        /\ \E o \in OutcomesNow(r.h) :
             \E nested \in NestedHealth(r.h, o) :
               reqs' = (reqs (-) SetToBag({r})) (+)
                       SetToBag({[r EXCEPT !.st = "done", !.outcome = o,
                                           !.status = HandlerStatus(variant, r.h, o),
                                           !.body = BodyOf(r.h, o, nested)]})
        /\ handles' = HandlesAfter(r.h, handles)
    /\ UNCHANGED << variant, pc, logLevel, port, sdkVars, clientVars, drain, log,
                    defers, registered, err, retval, failedAt, branch,
                    listenerVars, signalVars, stepErrs, exitVars >>

\* The orchestrator's steps up to the end of run's body; the deferred calls
\* that follow touch neither the listener nor a request.
RunBody ==
    \/ SetPropagator
    \/ SetupTraceProvider
    \/ SetupMeterProvider
    \/ HostStart
    \/ RuntimeStart
    \/ MysqlOpen
    \/ MysqlPing
    \/ RedisNew
    \/ RedisInstrument
    \/ MongoConnect
    \/ MongoPing
    \/ ClickhouseOpen
    \/ ClickhousePing
    \/ KafkaNew
    \/ KafkaDial
    \/ NotifyContext
    \/ Interrupt
    \/ OtelCheck
    \/ GoListen
    \/ ListenOk
    \/ ListenAndServeReturns
    \/ SendSrvErr
    \/ SelectSrvErr
    \/ SelectCtxDone
    \/ SrvShutdown
    \/ GormCheck
    \/ InitDatabase
    \/ GormRun
    \/ GormRunFails

NextServe == RunBody \/ Accept \/ Respond

SpecServe == Init /\ [][NextServe]_vars
----------------------------------------------------------------------------
(* Properties                                                              *)

InLog(e) == \E i \in 1..Len(log) : log[i] = e

\* setupOTelSDK has returned to its caller.
SdkReturned == pc \notin {"sdk_prop", "sdk_trace", "sdk_meter", "sdk_host", "sdk_runtime"}

\* run (or main of the GORM variant) is over.
Stopped == pc \in {"returned", "exited"}

\* The resource a startup step acquires.
ResourceOf(step) ==
    CASE step \in {"mysql_open", "mysql_ping"}       -> "mysqldb"
      [] step \in {"mongo_connect", "mongo_ping"}    -> "mdb"
      [] step \in {"ch_open", "ch_ping"}             -> "ccn"
      [] OTHER                                       -> "kcn"

\* The deferred call that would close a resource.
CleanupOf(h) ==
    CASE h = "mysqldb" -> "mysql_close"
      [] h = "mdb"     -> "mdb_disconnect"
      [] h = "ccn"     -> "ccn_close"
      [] OTHER         -> "kcn_close"

OpenSteps == {"mysql_open", "mongo_connect", "ch_open", "kafka_dial"}

PingSteps == {"mysql_ping", "mongo_ping", "ch_ping"}

\* C1: over any sequence of calls of the shutdown returned by setupOTelSDK,
\* every registered sub-shutdown is invoked exactly once in total: the first
\* call (the rollback inside setupOTelSDK when construction failed) invokes
\* each once, every later call invokes none and returns nil.
C1_ShutdownOnce ==
    /\ \A f \in SubShutdowns :
          /\ invoked[f] <= 1
          /\ f \notin everRegistered => invoked[f] = 0
    /\ (SdkReturned /\ (calls >= 1 \/ sdkFailed # "none"))
          => \A f \in everRegistered : invoked[f] = 1
    /\ \A i \in 1..Len(results) :
          (i >= 2 \/ sdkFailed # "none") => results[i] = nil

C1_Witness ==
    /\ pc = "client"
    /\ sdkFailed = "none"
    /\ calls >= 2
    /\ \A f \in SubShutdowns : invoked[f] = 1
    /\ results[1] # nil

\* C2: a call of shutdown invokes every registered sub-shutdown even when an
\* earlier one returns an error; its result is nil exactly when no invoked
\* sub-shutdown returned an error, and otherwise contains each such error.
C2_ShutdownJoinsAll ==
    (pc = "client" /\ sdkFailed = "none" /\ calls >= 1) =>
        /\ Range(calledLog) = everRegistered
        /\ results[1] = nil <=> failedFns = {}
        /\ \A f \in failedFns : Contains(results[1], FnErr(f))

C2_Witness ==
    /\ pc = "client"
    /\ sdkFailed = "none"
    /\ calls >= 1
    /\ failedFns = SubShutdowns
    /\ calledLog = << "tracerProvider", "meterProvider" >>

\* C3: when a construction step of setupOTelSDK fails, then at its return
\* every sub-shutdown registered by an earlier step has been invoked exactly
\* once, the registration list is empty, and the returned error is non-nil
\* and contains the construction error and every rollback error.
C3_SetupRollback ==
    (SdkReturned /\ sdkFailed # "none") =>
        /\ \A f \in everRegistered : invoked[f] = 1
        /\ shutdownFuncs = << >>
        /\ sdkErr # nil
        /\ Contains(sdkErr, sdkFailed \o "_err")
        /\ \A f \in failedFns : Contains(sdkErr, FnErr(f))

C3_Witness ==
    /\ pc = "client"
    /\ calls = 0
    /\ sdkFailed = "runtime"
    /\ failedFns = SubShutdowns
    /\ Len(sdkErr) = 3

\* The resources a run acquires after resource h, in the order of the code.
LaterThan(h) ==
    CASE h = "mysqldb" -> {"rdb", "mdb", "ccn", "kcn", "kw", "kr"}
      [] h = "rdb"     -> {"mdb", "ccn", "kcn", "kw", "kr"}
      [] h = "mdb"     -> {"ccn", "kcn", "kw", "kr"}
      [] h = "ccn"     -> {"kcn", "kw", "kr"}
      [] OTHER         -> {}

\* C4: if acquisition of resource k fails (open error or failed ping), then
\* when run returns every resource acquired before k is closed and no
\* cleanup for resource k or a later resource is registered.
C4_AcquisitionRollback ==
    (pc = "returned" /\ failedAt \in OpenSteps \cup PingSteps) =>
        /\ \A h \in Handles \ {ResourceOf(failedAt)} : handles[h] # "open"
        /\ CleanupOf(ResourceOf(failedAt)) \notin registered
        /\ \A h \in LaterThan(ResourceOf(failedAt)) :
              /\ handles[h] = "nil"
              /\ CleanupOf(h) \notin registered
              /\ "kafka_close" \notin registered

\* C5: when a connection opens but its Ping fails, the just-opened connection
\* is closed before run returns the probe error, and no cleanup is registered
\* for it.
C5_PingFailureCloses ==
    (pc = "returned" /\ failedAt \in PingSteps) =>
        /\ handles[ResourceOf(failedAt)] = "closed"
        /\ CleanupOf(ResourceOf(failedAt)) \notin registered
        /\ retval # nil

\* C6: whichever handles were open when shutdown was triggered, none of them
\* is open when run returns.
C6_NoHandleOpenAfterRun ==
    (pc = "returned" /\ branch # "none") =>
        \A h \in Handles : handles[h] # "open"

\* C7: on every path from Serving to Stopped all three shutdown steps are
\* executed: the listener is asked to stop and drain, the telemetry pipeline
\* is shut down, and the resources are closed.
C7_AllShutdownSteps ==
    (variant \in {"otel", "gorm"} /\ Stopped /\ branch # "none") =>
        /\ InLog("srv.Shutdown")
        /\ InLog("otelShutdown")
        /\ \A h \in Handles : handles[h] # "open"

\* C8: the error run returns after shutdown contains the error of every
\* shutdown step that failed (listener drain, telemetry shutdown, each
\* resource close).
C8_NoShutdownErrorDropped ==
    (variant = "otel" /\ pc = "returned" /\ branch # "none") =>
        \A e \in stepErrs : Contains(retval, e)

\* C9: no resource is acquired before the telemetry pipeline has started
\* successfully, and a telemetry start failure ends run with the error
\* returned and no resource left open.
C9_TelemetryBeforeResources ==
    variant = "otel" =>
        /\ (\E h \in Handles : handles[h] # "nil") => "otel_shutdown" \in registered
        /\ (pc = "returned" /\ failedAt = "otel_setup") =>
              /\ retval # nil
              /\ \A h \in Handles : handles[h] # "open"

IsClose(e) == e \in {"close:mdb", "close:mysqldb", "close:kafka"}

CascadeSteps == {"srv.Shutdown", "otelShutdown", "close:mdb", "close:mysqldb", "close:kafka"}

\* C11: when the listener error and the interrupt both occur, exactly one
\* branch of the wait is taken and the main path never waits again, every
\* cleanup runs at most once, and the losing event is not consumed: the
\* value sent on srvErr stays unread on the interrupt branch and srv.Shutdown
\* is not called on the listener-error branch.
C11_OneCascade ==
    /\ branch # "none" => pc # "select"
    /\ \A e \in CascadeSteps : Count(log, e) <= 1
    /\ \A f \in SubShutdowns : invoked[f] <= 1
    /\ (branch = "interrupt" /\ lpc = "done") => srvErr # << >>
    /\ branch = "srvErr" => ~InLog("srv.Shutdown")

C11_Witness ==
    /\ pc = "returned"
    /\ branch = "interrupt"
    /\ ctxDone
    /\ srvErr = << << "listen_err" >> >>
    /\ InLog("srv.Shutdown")
\* The orchestrator's state: 1 Starting (start-up and its rollback),
\* 2 Serving (the wait), 3 ShuttingDown (a branch of the wait was taken),
\* 4 Stopped.
Phase ==
    CASE pc \in {"returned", "exited"}                          -> 4
      [] branch # "none" /\ pc \in {"srv_shutdown", "unwind"}   -> 3
      [] pc \in {"select", "g_serving"}                         -> 2
      [] OTHER                                                  -> 1

\* C12: run goes Serving, ShuttingDown, Stopped in that order and each once:
\* Serving is left only for ShuttingDown, ShuttingDown only for Stopped, and
\* Stopped is never left; on the interrupt branch run returns nil when the
\* listener drains in time and every step is clean, and the listener's
\* "server closed" result is never part of the returned value.
C12_Step ==
    variant \in RunVariants =>
        /\ Phase' >= Phase
        /\ Phase = 2 => Phase' \in {2, 3}
        /\ Phase = 3 => Phase' \in {3, 4}
        /\ Phase = 4 => Phase' = 4
        /\ (pc' = "returned" /\ branch' = "interrupt") =>
              /\ (drain'.req < DrainDeadline /\ stepErrs' = {}) => retval' = nil
              /\ ~Contains(retval', "ErrServerClosed")

\* C12: every step of run keeps the lifecycle order Serving, ShuttingDown,
\* Stopped (each entered once, Stopped final) and an interrupt with a timely
\* drain and clean steps makes run return nil.
C12_InterruptLifecycle == [][C12_Step]_vars

C12_Witness ==
    /\ variant = "dd"
    /\ pc = "returned"
    /\ branch = "interrupt"
    /\ drain.req < DrainDeadline
    /\ stepErrs = {}
    /\ retval = nil
    /\ srvErr = << << "ErrServerClosed" >> >>
\* The steps of the main path from the wait to the exit of the process.
MainPath ==
    \/ SelectSrvErr
    \/ SelectCtxDone
    \/ SrvShutdown
    \/ DeferCancel
    \/ DeferStop
    \/ DeferOtelShutdown
    \/ DeferMdbDisconnect
    \/ DeferMysqlClose
    \/ DeferKafkaClose
    \/ ReturnDone
    \/ MainExit

\* The programs with the main path scheduled fairly: a ready select case is
\* taken and a running statement finishes.
SpecLive == Init /\ [][Next]_vars /\ WF_vars(MainPath)

C14_ListenerErrorFatal ==
    branch = "srvErr" =>
        /\ pc \in {"unwind", "returned", "exited"}
        /\ variant \in RunVariants => (retval # nil /\ Contains(retval, "listen_err"))
        /\ exited => exitCode = 1

C14_Witness ==
    /\ variant = "dd"
    /\ branch = "srvErr"
    /\ pc = "exited"
    /\ retval = << "listen_err" >>
    /\ exitCode = 1
\* C15: with the 5 second drain deadline and an in-flight request that needs
\* longer, srv.Shutdown returns when the deadline expires instead of waiting
\* for the request, with a non-nil error reporting the incomplete drain,
\* and run returns that error.
C15_DrainDeadline ==
    /\ drain.took <= DrainDeadline
    /\ (branch = "interrupt" /\ pc \in {"unwind", "returned", "exited"}
            /\ drain.req > DrainDeadline) =>
          /\ drain.took = DrainDeadline
          /\ retval = << "drain_deadline_err" >>

C15_Witness ==
    /\ pc = "returned"
    /\ branch = "interrupt"
    /\ drain.req = DrainDeadline + 1
    /\ drain.took = DrainDeadline
    /\ retval = << "drain_deadline_err" >>
\* The context each shutdown step is called with: srv.Shutdown gets the 5s
\* timeout context, otelShutdown and mdb.Disconnect get context.Background(),
\* the Close methods take no context.
StepContext(step) ==
    CASE step = "srv.Shutdown"               -> "timeout"
      [] step \in {"otelShutdown", "close:mdb"} -> "background"
      [] OTHER                                -> "none"

\* C16: the telemetry shutdown and every resource close performed during
\* shutdown run under a context that carries a deadline.
C16_ShutdownStepsBounded ==
    branch # "none" =>
        \A i \in 1..Len(log) :
            log[i] \in CascadeSteps \ {"srv.Shutdown"} => StepContext(log[i]) = "timeout"
\* The startup steps that open or probe a backend.
BackendSteps == OpenSteps \cup PingSteps \cup {"db_open"}

Accepted == BagToSet(reqs)

\* C18: the listener accepts no request before Serving is entered, and no
\* new request is accepted once ShuttingDown has begun: every accepted
\* request was accepted while the orchestrator was in the wait.
C18_AcceptOnlyWhileServing ==
    \A r \in Accepted : r.at \in {"select", "g_serving"}

\* C18 as amended: the listener accepts no request before Serving is
\* entered and none once srv.Shutdown has been called or ListenAndServe has
\* returned; between the moment the interrupt branch of the wait is taken
\* and the call of srv.Shutdown the listener is still open and a request
\* can be accepted.
C18_AcceptOnlyWhileListening ==
    /\ \A r \in Accepted :
          /\ r.at \in {"select", "srv_shutdown", "g_serving"}
          /\ srvState # "new"
    /\ Accepted # {} /\ variant \in RunVariants => failedAt = "none" /\ lpc # "none"

C18_Witness ==
    /\ srvState = "closed"
    /\ InLog("srv.Shutdown")
    /\ \E r \in Accepted : r.at = "srv_shutdown"
    /\ BagCardinality(reqs) < MaxRequests

\* The results of a backend call that are failures of the call.
BackendFailures == {"error", "notfound"}

\* C19: for every demonstration handler, a failure of its backend call
\* (timeout, not-found, connection drop) produces a 500 response for that
\* request.
C19_BackendFailureIs500 ==
    \A r \in Accepted :
        (r.st = "done" /\ r.h \in DemoHandlers /\ r.outcome \in BackendFailures)
            => r.status = StatusInternalServerError
\* C20: the trace exporter and the metric exporter are selected by the same
\* mode: both are the local stdout sink when OTEL_LOG_LEVEL is debug and both
\* are the OTLP exporter otherwise; the metric reader's interval is the
\* 10-second one exactly in debug mode and the default one in every other
\* mode.
C20_ExportersSameMode ==
    /\ traceExporter # "none" =>
          (traceExporter = "stdout" <=> logLevel = "debug")
    /\ traceExporter \in {"none", "stdout", "otlp"}
    /\ metricExporter # "none" =>
          /\ metricExporter \in {"stdout", "otlp"}
          /\ metricExporter = traceExporter
          /\ interval = DebugInterval <=> logLevel = "debug"
          /\ logLevel # "debug" => interval = DefaultInterval

C20_Witness ==
    /\ logLevel = "debug"
    /\ traceExporter = "stdout"
    /\ metricExporter = "stdout"
    /\ interval = DebugInterval
    /\ providers = {"tracer", "meter"}
\* C21: the propagator is installed as the process-wide default only after
\* the trace provider and the meter provider have been built, and it is not
\* installed when the construction of either provider fails.
C21_PropagatorAfterProviders ==
    /\ propagator => providers = {"tracer", "meter"}
    /\ sdkFailed \in {"trace", "meter"} => ~propagator
\* A step that accepts a request or finishes a handler.
HandlerStep == reqs' # reqs

\* C22: no request handler closes or reassigns a resource handle or the
\* telemetry handle: every handler execution leaves all handles and the
\* telemetry pipeline's shutdown list unchanged, and while run is in the wait
\* no step changes them.
C22_Step ==
    /\ HandlerStep =>
          /\ handles' = handles
          /\ shutdownFuncs' = shutdownFuncs
          /\ invoked' = invoked
    /\ (Phase = 2 /\ Phase' = 2) =>
          /\ handles' = handles
          /\ shutdownFuncs' = shutdownFuncs

\* C22: the action property of the handler frame.
C22_HandlersLeaveHandles == [][C22_Step]_vars

C22_Witness ==
    /\ pc = "select"
    /\ variant = "dd"
    /\ \E r \in Accepted : r.st = "done" /\ r.h = "mysql" /\ r.outcome = "error"
    /\ handles["mysqldb"] = "open"
\* The list setupOTelSDK has registered when it returns without error.
RegisteredAtReturn == << "tracerProvider", "meterProvider" >>

\* The returned shutdown closure has been called by the client.
ShutdownCalled == calls > 0 \/ InLog("otelShutdown")

\* C23: the list of registered shutdown functions is written only inside
\* setupOTelSDK before it returns: once setupOTelSDK has returned without
\* error the list stays as it was registered, whatever is called later.
C23_ListFrozenAfterSetup ==
    (SdkReturned /\ sdkFailed = "none") => shutdownFuncs = RegisteredAtReturn

\* C23 as amended: the list is appended to only inside setupOTelSDK before
\* it returns; the shutdown closure, whether called by handleErr during
\* setup or by the client afterwards, sets the list to nil, and nothing else
\* writes to it.
C23_ListWrittenBySetupAndShutdown ==
    /\ pc \in {"sdk_prop", "sdk_trace"} => shutdownFuncs = << >>
    /\ pc = "sdk_meter" => shutdownFuncs = << "tracerProvider" >>
    /\ pc \in {"sdk_host", "sdk_runtime"} => shutdownFuncs = RegisteredAtReturn
    /\ sdkFailed # "none" => shutdownFuncs = << >>
    /\ (SdkReturned /\ sdkFailed = "none") =>
          shutdownFuncs = IF ShutdownCalled THEN << >> ELSE RegisteredAtReturn

C23_Witness ==
    /\ SdkReturned
    /\ sdkFailed = "none"
    /\ calls = 1
    /\ calledLog = RegisteredAtReturn
    /\ shutdownFuncs = << >>
\* C26: the server listens on the port given by PORT and on 8080 when PORT
\* is absent or empty, and for every PORT value the internal check calls
\* /health on the port the server is listening on.
C26_CheckCallsListeningPort ==
    (variant = "gorm" /\ srvState = "listening") =>
        /\ port = "" => ListenPort = 8080
        /\ port # "" => ListenPort = ParsePort(port)
        /\ CheckPort(port) = ListenPort
\* The finished requests of a handler.
Done(h) == {r \in Accepted : r.st = "done" /\ r.h = h}

C25_InternalCheckExclusive ==
    \A r \in Done("internal_check") :
        /\ r.status = StatusOK <=> r.outcome = "ok"
        /\ r.status = StatusOK =>
              r.body.internal_health # "absent" /\ ~r.body.internal_error
        /\ r.status # StatusOK =>
              /\ r.status = StatusInternalServerError
              /\ r.body.internal_error
              /\ r.body.internal_health = "absent"
        /\ ~(r.body.internal_health # "absent" /\ r.body.internal_error)

C25_Witness ==
    /\ \E r \in Done("internal_check") :
          r.outcome = "badbody" /\ r.status = StatusInternalServerError
    /\ \E r \in Done("internal_check") :
          r.outcome = "ok" /\ r.body.internal_health = "disconnected"
\* a comes before b wherever both occur in s.
Before(s, a, b) ==
    \A i, j \in 1..Len(s) : (s[i] = a /\ s[j] = b) => i < j

\* C27: the telemetry shutdown function invokes the registered sub-shutdowns
\* in registration order: the tracer provider's shutdown before the meter
\* provider's, and the joined error lists their errors in that order.
C27_ShutdownFIFO ==
    /\ Before(calledLog, "tracerProvider", "meterProvider")
    /\ \A k \in 1..Len(results) :
          Before(results[k], "tp_shutdown_err", "mp_shutdown_err")
    /\ Before(sdkErr, "tp_shutdown_err", "mp_shutdown_err")

C27_Witness ==
    /\ calledLog = << "tracerProvider", "meterProvider" >>
    /\ Len(results) >= 1
    /\ results[1] = << "tp_shutdown_err", "mp_shutdown_err" >>
\* C28: on the interrupt branch the value run returns is exactly the result
\* of srv.Shutdown; an error the listener goroutine has placed in srvErr is
\* never received and is no part of the returned value, so run can return
\* nil although the listener failed.
C28_InterruptReturnsShutdownResult ==
    (branch = "interrupt" /\ InLog("srv.Shutdown")) =>
        /\ retval \in DrainResults(drain.req)
        /\ ~Contains(retval, "listen_err")
        /\ ~Contains(retval, "ErrServerClosed")
        /\ lpc = "done" => srvErr = << lres >>

C28_Witness ==
    /\ branch = "interrupt"
    /\ pc = "returned"
    /\ retval = nil
    /\ srvErr = << << "listen_err" >> >>
\* C29: the listener goroutine never blocks on reporting its result: when
\* ListenAndServe has returned there is room in srvErr for the one value it
\* sends, whether or not the main path ever receives, and after the send the
\* goroutine is over.
C29_ListenerSendNeverBlocks ==
    variant \in RunVariants =>
        /\ Len(srvErr) <= 1
        /\ (lpc = "returned" /\ ~exited) => CanSend(srvErr)
        /\ lpc # "done" => srvErr = << >>
        /\ lpc = "done" => (srvErr = << lres >> \/ (branch = "srvErr" /\ srvErr = << >>))

C29_Witness ==
    /\ branch = "interrupt"
    /\ pc = "returned"
    /\ lpc = "done"
    /\ lres = << "ErrServerClosed" >>
    /\ srvErr = << lres >>
\* The deferred stop() has run.
DeferredStopRan == "stop" \in registered /\ \A i \in 1..Len(defers) : defers[i] # "stop"

\* C30: on the interrupt branch signal capture is released before the drain
\* begins, so a further interrupt is not absorbed by the signal context but
\* ends the process; the deferred second stop() changes nothing.
C30_StopBeforeDrain ==
    /\ branch = "interrupt" =>
          /\ ~notifying
          /\ ctxDone
    /\ (branch = "interrupt" /\ DeferredStopRan) => (~notifying /\ ctxDone)
    /\ exitCode = SignalExit =>
          /\ exited
          /\ ~notifying

C30_Witness ==
    /\ branch = "interrupt"
    /\ ~InLog("srv.Shutdown")
    /\ exited
    /\ exitCode = SignalExit
    /\ "stop" \in Range(defers)
\* C31: in redisFunc a lookup whose key is absent (redis.Nil) yields a 200
\* response, every other lookup error yields 500 and a successful lookup
\* yields 200.
C31_RedisNilIs200 ==
    \A r \in Done("redis") :
        /\ r.outcome = "notfound" => r.status = StatusOK
        /\ r.outcome = "error" => r.status = StatusInternalServerError
        /\ r.outcome = "ok" => r.status = StatusOK

\* C31 as amended: a successful lookup yields 200 and a lookup error other
\* than redis.Nil yields 500 in every program; redis.Nil yields 200 except
\* in the Datadog program without MySQL, whose redisFunc answers it with 500
\* like any other error.
C31_RedisNilIs200ExceptNoSql ==
    \A r \in Done("redis") :
        /\ r.outcome = "ok" => r.status = StatusOK
        /\ r.outcome = "error" => r.status = StatusInternalServerError
        /\ r.outcome = "notfound" =>
              r.status = IF variant = "dd_nosql" THEN StatusInternalServerError
                         ELSE StatusOK

C31_Witness ==
    /\ variant = "dd"
    /\ \E r \in Done("redis") : r.outcome = "notfound" /\ r.status = StatusOK
    /\ \E r \in Done("redis") : r.outcome = "error" /\ r.status = StatusInternalServerError
====
